---- MODULE Spec2Model ----
(***************************************************************************)
(* Model of yaml-diff-script.py: the deep intersection of several parsed   *)
(* YAML documents (the base), the pruning of empty structures, and the     *)
(* reconstruction of one nested overlay per document from a structural     *)
(* diff of the document against the base.                                  *)
(*                                                                         *)
(* A parsed document is a tagged value [t, v]:                             *)
(*   "none"  Python None (YAML null, and what an empty file parses to)     *)
(*   "int"   an integer scalar                                             *)
(*   "dict"  a mapping, v a function from keys to values                   *)
(*   "list"  a sequence, v a 1-based tuple (Python index i is v[i+1])      *)
(*   "err"   an exception raised instead of a value, v its class name      *)
(* A mapping key and a step of a path are the same thing, as in Python: a  *)
(* string <<"str", s>> or an integer <<"int", n>>.                         *)
(***************************************************************************)
EXTENDS Integers, Sequences, FiniteSets, TLC

VARIABLES
    files,      \* what each input file holds: a document, or an error on reading it
    data_list,  \* generate_base_and_overlays: the documents read so far
    base,       \* generate_base_and_overlays: the base
    overlays,   \* generate_base_and_overlays: the overlays built so far
    diff,       \* create_overlay: the report of the diff in use
    saved,      \* main: the documents written, the base first
    pc,         \* where the run is
    arg,        \* the arguments of a function called on its own
    ret         \* what the last call returned or raised

vars == <<files, data_list, base, overlays, diff, saved, pc, arg, ret>>

-----------------------------------------------------------------------------
(* Bounds of the model. *)

\* most nodes (containers and scalars) of one generated document
MaxNodes == 3
\* integer scalars are 1..MaxInt
MaxInt == 2
\* the values of the flat mappings are 1..MaxFlatInt
MaxFlatInt == 3
\* set_nested is called with paths of 1..MaxPathLen steps
MaxPathLen == 2
\* and with sequence indices 0..MaxIndex
MaxIndex == 1


-----------------------------------------------------------------------------
(* Keys and path steps. *)

StrKey(s) == <<"str", s>>
IntKey(n) == <<"int", n>>

IsStr(key) == key[1] = "str"

Keys2 == <<StrKey("a"), StrKey("b")>>
Keys3 == <<StrKey("a"), StrKey("b"), StrKey("c")>>

-----------------------------------------------------------------------------
(* Values. *)

None == [t |-> "none", v |-> 0]
I(n) == [t |-> "int", v |-> n]
D(f) == [t |-> "dict", v |-> f]
L(s) == [t |-> "list", v |-> s]
Err(e) == [t |-> "err", v |-> e]

EmptyDict == D(<<>>)
EmptyList == L(<<>>)

IsDict(x) == x.t = "dict"
IsList(x) == x.t = "list"
IsErr(x) == x.t = "err"

\* a mapping built from a set of keys
DictOf(ks, Val(_)) == IF ks = {} THEN EmptyDict ELSE D([k \in ks |-> Val(k)])

KeysOf(d) == IF d.v = <<>> THEN {} ELSE DOMAIN d.v

Range(s) == {s[i] : i \in DOMAIN s}

RECURSIVE SeqOfSet(_)
\* the elements of a finite set of integers in increasing order
SeqOfSet(S) ==
    IF S = {} THEN <<>>
    ELSE LET m == CHOOSE x \in S : \A y \in S : x <= y
         IN <<m>> \o SeqOfSet(S \ {m})

-----------------------------------------------------------------------------
(* The documents the model draws its inputs from: every value of at most   *)
(* n nodes over the given keys, the integers 1..MaxInt and None.           *)

Leaves == {None} \cup {I(n) : n \in 1..MaxInt}

RECURSIVE TreesOf(_, _), ListBodies(_, _), DictBodies(_, _, _)
\* the values of exactly n nodes
TreesOf(keys, n) ==
    IF n <= 0 THEN {}
    ELSE IF n = 1 THEN Leaves \cup {EmptyDict, EmptyList}
    ELSE {L(s) : s \in ListBodies(keys, n - 1) \ {<<>>}}
         \cup {D(f) : f \in DictBodies(keys, 1, n - 1) \ {<<>>}}

\* the tuples of values of m nodes in all
ListBodies(keys, m) ==
    IF m = 0 THEN {<<>>}
    ELSE UNION {{<<h>> \o r : h \in TreesOf(keys, k), r \in ListBodies(keys, m - k)}
                : k \in 1..m}

\* the functions from a subset of keys[i..] to values of m nodes in all
DictBodies(keys, i, m) ==
    IF i > Len(keys) THEN (IF m = 0 THEN {<<>>} ELSE {})
    ELSE DictBodies(keys, i + 1, m)
         \cup UNION {{IF r = <<>> THEN (keys[i] :> h) ELSE (keys[i] :> h) @@ r
                      : h \in TreesOf(keys, k), r \in DictBodies(keys, i + 1, m - k)}
                     : k \in 1..m}

TreesUpTo(keys, n) == UNION {TreesOf(keys, k) : k \in 1..n}

-----------------------------------------------------------------------------
(* remove_empty_structures *)

\* the test `x not in ({}, [], None)` negated
IsEmptyValue(x) == x \in {EmptyDict, EmptyList, None}

RECURSIVE remove_empty_unpruned(_)
\* remove_empty_structures testing the child as it is, not as it is pruned
remove_empty_unpruned(data) ==
    IF IsDict(data) THEN
        DictOf({k \in KeysOf(data) : ~IsEmptyValue(data.v[k])},
               LAMBDA k : remove_empty_unpruned(data.v[k]))
    ELSE IF IsList(data) THEN
        LET kept == SelectSeq(data.v, LAMBDA y : ~IsEmptyValue(y))
        IN L([i \in 1..Len(kept) |-> remove_empty_unpruned(kept[i])])
    ELSE data

RECURSIVE remove_empty_structures(_)
remove_empty_structures(data) ==
    IF IsDict(data) THEN
        DictOf({k \in KeysOf(data) : ~IsEmptyValue(remove_empty_structures(data.v[k]))},
               LAMBDA k : remove_empty_structures(data.v[k]))
    ELSE IF IsList(data) THEN
        LET kept == SelectSeq([i \in 1..Len(data.v) |-> remove_empty_structures(data.v[i])],
                              LAMBDA y : ~IsEmptyValue(y))
        IN L(kept)
    ELSE data

-----------------------------------------------------------------------------
(* deep_intersection *)

Min(S) == CHOOSE x \in S : \A y \in S : x <= y

\* line 59 with the keys of the first document taken for the common ones
first_keys(dl) == KeysOf(dl[1])

\* line 59
common_keys(dl) == {k \in KeysOf(dl[1]) : \A i \in DOMAIN dl : k \in KeysOf(dl[i])}

RECURSIVE deep_intersection(_)
deep_intersection(dl) ==
    IF dl = <<>> THEN None
    ELSE IF \A i \in DOMAIN dl : IsDict(dl[i]) THEN
        LET having(k) == SelectSeq(dl, LAMBDA d : k \in KeysOf(d))
            result == DictOf(common_keys(dl),
                             LAMBDA k : deep_intersection(
                                 [i \in 1..Len(having(k)) |-> having(k)[i].v[k]]))
        IN remove_empty_structures(result)
    ELSE IF \A i \in DOMAIN dl : IsList(dl[i]) THEN
        LET n == Min({Len(dl[i].v) : i \in DOMAIN dl})
            zipped == [j \in 1..n |-> deep_intersection([i \in DOMAIN dl |-> dl[i].v[j]])]
            result == SelectSeq(zipped, LAMBDA y : ~IsEmptyValue(y))
        IN IF result # <<>> THEN L(result) ELSE None
    ELSE IF \A i \in DOMAIN dl : dl[i] = dl[1] THEN dl[1]
    ELSE None

-----------------------------------------------------------------------------
(* Path codec. A path string is modelled as the tuple of its tokens: the   *)
(* punctuation characters [ ] ' one by one, the digits one by one, and     *)
(* every maximal run of other characters (a key, or the word root) as one  *)
(* token.                                                                  *)

DigitChars == <<"0", "1", "2", "3", "4", "5", "6", "7", "8", "9">>

IsDigit(c) == \E i \in 1..10 : DigitChars[i] = c

DigitValue(c) == (CHOOSE i \in 1..10 : DigitChars[i] = c) - 1

RECURSIVE Decimal(_)
\* str(n) for n >= 0, as digit tokens
Decimal(n) == IF n < 10 THEN <<DigitChars[n + 1]>>
              ELSE Decimal(n \div 10) \o <<DigitChars[(n % 10) + 1]>>

RECURSIVE IntOf(_)
\* int(s) of a non-empty run of digit tokens
IntOf(ds) == IF Len(ds) = 1 THEN DigitValue(ds[1])
             ELSE 10 * IntOf(SubSeq(ds, 1, Len(ds) - 1)) + DigitValue(ds[Len(ds)])

RECURSIVE JoinTokens(_)
JoinTokens(ts) == IF ts = <<>> THEN "" ELSE ts[1] \o JoinTokens(Tail(ts))

\* the text the diff library gives a path: root['key'][index]...
StepText(key) == IF IsStr(key) THEN <<"[", "'", key[2], "'", "]">>
                 ELSE <<"[">> \o Decimal(key[2]) \o <<"]">>

RECURSIVE PathText(_)
PathText(path) == IF path = <<>> THEN <<"root">>
                  ELSE PathText(SubSeq(path, 1, Len(path) - 1)) \o StepText(path[Len(path)])

\* a match of  \[\'([^\']*)\'?\]  at position p: the set of <<group, end>>
\* for every length of the group, the longest first being the one taken
QuotedMatches(text, p) ==
    IF p + 1 > Len(text) \/ text[p] # "[" \/ text[p + 1] # "'" THEN {}
    ELSE {<<g, e>> \in (0..Len(text)) \X (1..Len(text)) :
            /\ p + 1 + g <= Len(text)
            /\ \A i \in (p + 2)..(p + 1 + g) : text[i] # "'"
            /\ \/ /\ e = p + 3 + g /\ e <= Len(text)
                  /\ text[p + 2 + g] = "'" /\ text[e] = "]"
               \/ /\ e = p + 2 + g /\ e <= Len(text)
                  /\ text[e] = "]"
                  /\ ~(p + 3 + g <= Len(text) /\ text[p + 2 + g] = "'" /\ text[p + 3 + g] = "]")}

\* a match of  \[(\d+)\]  at position p: the set of <<digit count, end>>
IndexMatches(text, p) ==
    IF text[p] # "[" THEN {}
    ELSE {<<g, e>> \in (1..Len(text)) \X (1..Len(text)) :
            /\ e = p + 1 + g /\ e <= Len(text)
            /\ \A i \in (p + 1)..(p + g) : IsDigit(text[i])
            /\ text[e] = "]"}

RECURSIVE FindAll(_, _)
\* re.findall from position p on, each component already converted by
\* `int(i) if i else s`
FindAll(text, p) ==
    IF p > Len(text) THEN <<>>
    ELSE LET q == QuotedMatches(text, p)
             x == IndexMatches(text, p)
         IN IF q # {} THEN
                LET m == CHOOSE m \in q : \A o \in q : o[1] <= m[1]
                IN <<StrKey(JoinTokens(SubSeq(text, p + 2, p + 1 + m[1])))>> \o FindAll(text, m[2] + 1)
            ELSE IF x # {} THEN
                LET m == CHOOSE m \in x : TRUE
                IN <<IntKey(IntOf(SubSeq(text, p + 1, p + m[1])))>> \o FindAll(text, m[2] + 1)
            ELSE FindAll(text, p + 1)

parse_path(text) == FindAll(text, 1)

-----------------------------------------------------------------------------
(* set_nested and get_nested. Python mutates d in place; here the changed  *)
(* container is returned, or the exception the walk raises.                *)

DictPut(f, key, x) == IF f = <<>> THEN (key :> x) ELSE (key :> x) @@ f

\* s extended with copies of filler until index n exists
PadTo(s, n, filler) ==
    IF Len(s) > n THEN s ELSE s \o [i \in 1..(n + 1 - Len(s)) |-> filler]

\* line 86 with the entry assigned whether or not the key is there
assign_default(d, key, default) == default

\* line 86: d.setdefault(key, default)
setdefault(d, key, default) == IF key \in KeysOf(d) THEN d.v[key] ELSE default

RECURSIVE set_nested(_, _, _)
set_nested(d, path, value) ==
    IF path = <<>> THEN Err("IndexError")
    ELSE LET key == path[1] IN
    IF Len(path) = 1 THEN
        IF IsStr(key) THEN
            IF IsDict(d) THEN D(DictPut(d.v, key, value)) ELSE Err("TypeError")
        ELSE
            IF IsList(d) THEN L([PadTo(d.v, key[2], None) EXCEPT ![key[2] + 1] = value])
            ELSE IF IsDict(d) THEN
                IF Cardinality(KeysOf(d)) <= key[2] THEN Err("AttributeError")
                ELSE D(DictPut(d.v, key, value))
            ELSE Err("TypeError")
    ELSE
        LET created == IF IsStr(path[2]) THEN EmptyDict ELSE EmptyList IN
        IF IsStr(key) THEN
            IF ~IsDict(d) THEN Err("AttributeError")
            ELSE LET child == setdefault(d, key, created)
                     sub == set_nested(child, Tail(path), value)
                 IN IF IsErr(sub) THEN sub ELSE D(DictPut(d.v, key, sub))
        ELSE
            IF IsList(d) THEN
                LET padded == PadTo(d.v, key[2], created)
                    sub == set_nested(padded[key[2] + 1], Tail(path), value)
                IN IF IsErr(sub) THEN sub ELSE L([padded EXCEPT ![key[2] + 1] = sub])
            ELSE IF IsDict(d) THEN
                IF Cardinality(KeysOf(d)) <= key[2] THEN Err("AttributeError")
                ELSE IF key \notin KeysOf(d) THEN Err("KeyError")
                ELSE LET sub == set_nested(d.v[key], Tail(path), value)
                     IN IF IsErr(sub) THEN sub ELSE D(DictPut(d.v, key, sub))
            ELSE Err("TypeError")

RECURSIVE get_nested(_, _)
get_nested(d, path) ==
    IF path = <<>> THEN d
    ELSE LET key == path[1] IN
        IF IsDict(d) THEN
            IF key \in KeysOf(d) THEN get_nested(d.v[key], Tail(path)) ELSE Err("KeyError")
        ELSE IF IsList(d) THEN
            IF IsStr(key) THEN Err("TypeError")
            ELSE IF key[2] < Len(d.v) THEN get_nested(d.v[key[2] + 1], Tail(path))
            ELSE Err("IndexError")
        ELSE Err("TypeError")

-----------------------------------------------------------------------------
(* DeepDiff(base, full, ignore_order=True), the structural diff library.   *)
(* A report holds, per kind of change, the changes in the order they are   *)
(* iterated; every change carries its path as text.                        *)
(*                                                                         *)
(* With ignore_order the elements of two sequences are matched by content  *)
(* (order and repetition ignored). The elements left unmatched on both     *)
(* sides may be paired and diffed as one changed element, reported at the  *)
(* index the element has in base; whether two elements are paired depends  *)
(* on the library version and its distance cutoffs, so DeepDiff is the set *)
(* of the reports any pairing of elements of the same kind gives. Some     *)
(* versions also turn an addition and a removal at the same path into one  *)
(* value change.                                                           *)

NoChange ==
    [dictionary_item_added |-> <<>>, dictionary_item_removed |-> <<>>,
     values_changed |-> <<>>, type_changes |-> <<>>,
     iterable_item_added |-> <<>>, iterable_item_removed |-> <<>>]

Change(path, value) == [path |-> PathText(path), new_value |-> value]

MergeReports(r, q) ==
    [dictionary_item_added |-> r.dictionary_item_added \o q.dictionary_item_added,
     dictionary_item_removed |-> r.dictionary_item_removed \o q.dictionary_item_removed,
     values_changed |-> r.values_changed \o q.values_changed,
     type_changes |-> r.type_changes \o q.type_changes,
     iterable_item_added |-> r.iterable_item_added \o q.iterable_item_added,
     iterable_item_removed |-> r.iterable_item_removed \o q.iterable_item_removed]

CrossReports(A, B) == {MergeReports(r, q) : r \in A, q \in B}

RECURSIVE KeySeq(_)
\* the keys of a set in a fixed order
KeySeq(ks) == IF ks = {} THEN <<>>
              ELSE LET k == CHOOSE k \in ks : TRUE IN <<k>> \o KeySeq(ks \ {k})

RECURSIVE Canon(_)
\* what the content hash of a value depends on: sequences count as sets
Canon(x) ==
    IF IsList(x) THEN [t |-> "list", v |-> {Canon(x.v[i]) : i \in DOMAIN x.v}]
    ELSE IF IsDict(x) THEN DictOf(KeysOf(x), LAMBDA k : Canon(x.v[k]))
    ELSE x

\* the first position of every content of s that is not a content of o
Unmatched(s, o) ==
    LET other == {Canon(o[i]) : i \in DOMAIN o}
    IN SeqOfSet({i \in DOMAIN s : /\ Canon(s[i]) \notin other
                                  /\ \A j \in 1..(i - 1) : Canon(s[j]) # Canon(s[i])})

RECURSIVE Pairings(_, _, _, _)
\* for the added positions A of t2, every way to give each either 0 (left
\* unpaired) or a removed position of t1 of the same kind, none used twice
Pairings(A, R, t1, t2) ==
    IF A = <<>> THEN {<<>>}
    ELSE {<<0>> \o rest : rest \in Pairings(Tail(A), R, t1, t2)}
         \cup UNION {{<<r>> \o rest : rest \in Pairings(Tail(A), R \ {r}, t1, t2)}
                     : r \in {r \in R : t1[r].t = t2[A[1]].t /\ t1[r].t # "none"}}

RECURSIVE DiffAt(_, _, _), DiffKeys(_, _, _, _), DiffPaired(_, _, _, _, _, _)
DiffAt(t1, t2, path) ==
    IF t1.t # t2.t THEN
        {[NoChange EXCEPT !.type_changes = <<Change(path, t2)>>]}
    ELSE IF IsDict(t1) THEN
        LET added == KeySeq(KeysOf(t2) \ KeysOf(t1))
            removed == KeySeq(KeysOf(t1) \ KeysOf(t2))
            own == [NoChange EXCEPT
                      !.dictionary_item_added =
                          [i \in 1..Len(added) |-> PathText(path \o <<added[i]>>)],
                      !.dictionary_item_removed =
                          [i \in 1..Len(removed) |-> PathText(path \o <<removed[i]>>)]]
        IN CrossReports({own}, DiffKeys(t1, t2, path, KeySeq(KeysOf(t1) \cap KeysOf(t2))))
    ELSE IF IsList(t1) THEN
        LET A == Unmatched(t2.v, t1.v)
            R == Unmatched(t1.v, t2.v)
        IN UNION {LET unpaired == SelectSeq(R, LAMBDA r : \A i \in DOMAIN ps : ps[i] # r)
                      own == [NoChange EXCEPT
                                !.iterable_item_removed =
                                    [i \in 1..Len(unpaired) |->
                                        Change(path \o <<IntKey(unpaired[i] - 1)>>,
                                               t1.v[unpaired[i]])]]
                  IN CrossReports({own}, DiffPaired(t1, t2, path, A, ps, 1))
                  : ps \in Pairings(A, Range(R), t1.v, t2.v)}
    ELSE IF t1 = t2 THEN {NoChange}
    ELSE {[NoChange EXCEPT !.values_changed = <<Change(path, t2)>>]}

\* the diffs of the values under the common keys ks[1..]
DiffKeys(t1, t2, path, ks) ==
    IF ks = <<>> THEN {NoChange}
    ELSE CrossReports(DiffAt(t1.v[ks[1]], t2.v[ks[1]], path \o <<ks[1]>>),
                      DiffKeys(t1, t2, path, Tail(ks)))

\* the added elements A[i..] of t2, each reported as added or diffed
\* against the removed element of t1 it is paired with
DiffPaired(t1, t2, path, A, ps, i) ==
    IF i > Len(A) THEN {NoChange}
    ELSE CrossReports(
            IF ps[i] = 0 THEN
                {[NoChange EXCEPT !.iterable_item_added =
                                     <<Change(path \o <<IntKey(A[i] - 1)>>, t2.v[A[i]])>>]}
            ELSE DiffAt(t1.v[ps[i]], t2.v[A[i]], path \o <<IntKey(ps[i] - 1)>>),
            DiffPaired(t1, t2, path, A, ps, i + 1))

\* an addition and a removal reported at one path become a value change
MutualAddRemoves(r) ==
    LET removed == {r.iterable_item_removed[i].path : i \in DOMAIN r.iterable_item_removed}
        added == {r.iterable_item_added[i].path : i \in DOMAIN r.iterable_item_added}
        mutual == removed \cap added
    IN [r EXCEPT
          !.iterable_item_added = SelectSeq(@, LAMBDA c : c.path \notin mutual),
          !.iterable_item_removed = SelectSeq(@, LAMBDA c : c.path \notin mutual),
          !.values_changed = @ \o SelectSeq(r.iterable_item_added,
                                            LAMBDA c : c.path \in mutual)]

DeepDiff(t1, t2) ==
    LET raw == DiffAt(t1, t2, <<>>)
    IN raw \cup {MutualAddRemoves(r) : r \in raw}

-----------------------------------------------------------------------------
(* create_overlay, for one report of the diff. An exception raised by a    *)
(* step ends the call: the result is then the exception.                   *)

RECURSIVE ReplaceAt(_, _, _)
\* d with the value that get_nested(d, path) found replaced by x
ReplaceAt(d, path, x) ==
    IF path = <<>> THEN x
    ELSE IF IsDict(d) THEN D(DictPut(d.v, path[1], ReplaceAt(d.v[path[1]], Tail(path), x)))
    ELSE L([d.v EXCEPT ![path[1][2] + 1] = ReplaceAt(@, Tail(path), x)])

\* lines 111-114: one added mapping entry
AddDictionaryItem(overlay, full, item) ==
    LET path == parse_path(item)
        value == get_nested(full, path)
    IN IF IsErr(value) THEN value ELSE set_nested(overlay, path, value)

\* lines 117-119 and 134-136: one changed value, one changed type
AddChange(overlay, change) == set_nested(overlay, parse_path(change.path), change.new_value)

\* lines 122-131: one added sequence element
AddIterableItem(overlay, change) ==
    LET path == parse_path(change.path)
        parent_path == SubSeq(path, 1, Len(path) - 1)
        index == path[Len(path)][2]
        parent == IF parent_path # <<>> THEN get_nested(overlay, parent_path) ELSE overlay
        filled(s) == L([PadTo(s, index, None) EXCEPT ![index + 1] = change.new_value])
    IN IF IsErr(parent) THEN parent
       ELSE IF ~IsList(parent) THEN
           LET created == set_nested(overlay, parent_path, EmptyList)
           IN IF IsErr(created) THEN created
              ELSE ReplaceAt(created, parent_path, filled(<<>>))
       ELSE ReplaceAt(overlay, parent_path, filled(parent.v))

\* the loop `for item in items: overlay = Step(overlay, item)`, left at the
\* first exception
ForEach(overlay, items, Step(_, _)) ==
    LET after[i \in 0..Len(items)] ==
            IF i = 0 THEN overlay
            ELSE IF IsErr(after[i - 1]) THEN after[i - 1]
            ELSE Step(after[i - 1], items[i])
    IN after[Len(items)]

\* lines 108-136: the overlay before it is pruned
build_overlay(report, full) ==
    LET o1 == ForEach(EmptyDict, report.dictionary_item_added,
                      LAMBDA o, item : AddDictionaryItem(o, full, item))
        o2 == ForEach(o1, report.values_changed, AddChange)
        o3 == ForEach(o2, report.iterable_item_added, AddIterableItem)
    IN ForEach(o3, report.type_changes, AddChange)

create_overlay(report, full) ==
    LET overlay == build_overlay(report, full)
    IN IF IsErr(overlay) THEN overlay ELSE remove_empty_structures(overlay)

-----------------------------------------------------------------------------
(* The run of the program: generate_base_and_overlays, then main.          *)

Unreadable == Err("IOError")

\* lines 22-29: the error is logged and None returned
read_yaml(content) == IF IsErr(content) THEN None ELSE content

NoDiff == NoChange

Idle == /\ arg = None /\ ret = None

Documents == TreesUpTo(Keys2, MaxNodes) \cup {Unreadable}

Init ==
    /\ files \in {<<d>> : d \in Documents} \cup (Documents \X Documents)
    /\ data_list = <<>> /\ base = None /\ overlays = <<>>
    /\ diff = NoDiff /\ saved = <<>>
    /\ pc = "read"
    /\ Idle

\* line 142, one file of the list
ReadYaml ==
    /\ pc = "read"
    /\ Len(data_list) < Len(files)
    /\ data_list' = Append(data_list, read_yaml(files[Len(data_list) + 1]))
    /\ UNCHANGED <<files, base, overlays, diff, saved, pc, arg, ret>>

\* lines 143-145
ReturnNoResult ==
    /\ pc = "read"
    /\ Len(data_list) = Len(files)
    /\ \E i \in DOMAIN data_list : data_list[i] = None
    /\ base' = None
    /\ overlays' = <<>>
    /\ pc' = "returned"
    /\ UNCHANGED <<files, data_list, diff, saved, arg, ret>>

\* line 147
Intersect ==
    /\ pc = "read"
    /\ Len(data_list) = Len(files)
    /\ \A i \in DOMAIN data_list : data_list[i] # None
    /\ base' = deep_intersection(data_list)
    /\ pc' = "overlays"
    /\ UNCHANGED <<files, data_list, overlays, diff, saved, arg, ret>>

\* line 148, one document of the list, and the return of line 150 after
\* the last
CreateOverlay ==
    /\ pc = "overlays"
    /\ LET data == data_list[Len(overlays) + 1] IN
       \E report \in DeepDiff(base, data) :
          LET overlay == create_overlay(report, data) IN
          /\ diff' = report
          /\ IF IsErr(overlay)
             THEN /\ ret' = overlay
                  /\ pc' = "raised"
                  /\ UNCHANGED overlays
             ELSE /\ overlays' = Append(overlays, overlay)
                  /\ pc' = IF Len(overlays) + 1 = Len(data_list) THEN "returned" ELSE "overlays"
                  /\ UNCHANGED ret
    /\ UNCHANGED <<files, data_list, base, saved, arg>>

\* lines 157-171, every save succeeding
Main ==
    /\ pc = "returned"
    /\ saved' = IF base # None
                THEN <<remove_empty_structures(base)>>
                     \o [i \in 1..Len(overlays) |-> remove_empty_structures(overlays[i])]
                ELSE <<>>
    /\ pc' = "done"
    /\ UNCHANGED <<files, data_list, base, overlays, diff, arg, ret>>

Next == ReadYaml \/ ReturnNoResult \/ Intersect \/ CreateOverlay \/ Main

Spec == Init /\ [][Next]_vars

-----------------------------------------------------------------------------
(* The same run on flat mappings of integers.                              *)

FlatDocuments ==
    UNION {[ks -> {I(n) : n \in 1..MaxFlatInt}] : ks \in (SUBSET Range(Keys3)) \ {{}}}

InitFlat ==
    /\ files \in LET fs == {D(f) : f \in FlatDocuments} \cup {EmptyDict, Unreadable}
                 IN fs \X fs
    /\ data_list = <<>> /\ base = None /\ overlays = <<>>
    /\ diff = NoDiff /\ saved = <<>>
    /\ pc = "read"
    /\ Idle

SpecFlat == InitFlat /\ [][Next]_vars

-----------------------------------------------------------------------------
(* create_overlay called on its own, on any base and any document.         *)

NotRunning ==
    /\ files = <<>> /\ data_list = <<>> /\ base = None /\ overlays = <<>>
    /\ saved = <<>>

\* a mapping with one key, over a value that holds sequences and scalars
UnderOneKey == {D(StrKey("a") :> x) : x \in TreesUpTo(<<>>, MaxNodes + 1)}

InitOverlay ==
    /\ arg \in [base : UnderOneKey, full : UnderOneKey]
    /\ ret = None
    /\ diff = NoDiff
    /\ pc = "call"
    /\ NotRunning

CallCreateOverlay ==
    /\ pc = "call"
    /\ \E report \in DeepDiff(arg.base, arg.full) :
          /\ diff' = report
          /\ ret' = create_overlay(report, arg.full)
    /\ pc' = "called"
    /\ UNCHANGED <<files, data_list, base, overlays, saved, arg>>

NextOverlay == CallCreateOverlay

SpecOverlay == InitOverlay /\ [][NextOverlay]_vars

-----------------------------------------------------------------------------
(* set_nested called on its own.                                           *)

Steps == {StrKey("a")} \cup {IntKey(i) : i \in 0..MaxIndex}

RECURSIVE PathsOf(_)
PathsOf(n) == IF n = 0 THEN {<<>>}
              ELSE {<<k>> \o p : k \in Steps, p \in PathsOf(n - 1)}

InitSet ==
    /\ arg \in [d : TreesUpTo(<<StrKey("a")>>, MaxNodes),
                path : UNION {PathsOf(n) : n \in 1..MaxPathLen},
                value : {I(1), EmptyList, D(StrKey("a") :> None)}]
    /\ ret = None
    /\ diff = NoDiff
    /\ pc = "call"
    /\ NotRunning

CallSetNested ==
    /\ pc = "call"
    /\ ret' = set_nested(arg.d, arg.path, arg.value)
    /\ pc' = "called"
    /\ UNCHANGED <<files, data_list, base, overlays, diff, saved, arg>>

NextSet == CallSetNested

SpecSet == InitSet /\ [][NextSet]_vars

-----------------------------------------------------------------------------
(* Pruning applied, and applied again to its own result (main prunes the   *)
(* already pruned base and overlays before saving them).                   *)

InitPrune ==
    /\ arg \in TreesUpTo(Keys2, MaxNodes + 1)
    /\ ret = <<>>
    /\ diff = NoDiff
    /\ pc = "call"
    /\ NotRunning

\* remove_empty_structures(data)
Prune ==
    /\ pc = "call"
    /\ ret' = <<remove_empty_structures(arg)>>
    /\ pc' = "pruned"
    /\ UNCHANGED <<arg, files, data_list, base, overlays, diff, saved>>

\* remove_empty_structures of what the first call returned
PruneAgain ==
    /\ pc = "pruned"
    /\ ret' = Append(ret, remove_empty_structures(ret[1]))
    /\ pc' = "repruned"
    /\ UNCHANGED <<arg, files, data_list, base, overlays, diff, saved>>

NextPrune == Prune \/ PruneAgain

SpecPrune == InitPrune /\ [][NextPrune]_vars

-----------------------------------------------------------------------------
(* Paths of a value. *)

StepsOf(x) == IF IsDict(x) THEN KeysOf(x)
              ELSE IF IsList(x) THEN {IntKey(i - 1) : i \in DOMAIN x.v}
              ELSE {}

Child(x, key) == IF IsDict(x) THEN x.v[key] ELSE x.v[key[2] + 1]

RECURSIVE PathsIn(_)
\* every path get_nested can walk in x, the empty path included
PathsIn(x) == {<<>>} \cup UNION {{<<k>> \o p : p \in PathsIn(Child(x, k))} : k \in StepsOf(x)}

Reachable(x, path) == ~IsErr(get_nested(x, path))

IsPrefix(p, q) == Len(p) <= Len(q) /\ SubSeq(q, 1, Len(p)) = p

-----------------------------------------------------------------------------
(* Properties. *)

\* C6: pruning is idempotent: remove_empty_structures applied to its own
\* result returns that result unchanged.
C6_IdempotentPruning == pc = "repruned" => ret[2] = ret[1]

\* a document that pruning changed without emptying it, pruned twice
C6_Witness ==
    /\ pc = "repruned"
    /\ ret[1] # arg
    /\ ~IsEmptyValue(ret[1])

-----------------------------------------------------------------------------
(* set_nested *)

\* the call returned, raising nothing
SetNestedCompleted == pc = "called" /\ ~IsErr(ret)

\* path q of d is still there in e, and a sequence at q is no shorter
Kept(d, e, q) ==
    /\ Reachable(e, q)
    /\ IsList(get_nested(d, q)) =>
          /\ IsList(get_nested(e, q))
          /\ Len(get_nested(e, q).v) >= Len(get_nested(d, q).v)

\* C10 as claimed: when set_nested completes, every path reachable before
\* is reachable afterwards and no sequence is shorter than before.
C10_NeverShrinks ==
    SetNestedCompleted => \A q \in PathsIn(arg.d) : Kept(arg.d, ret, q)

\* C10 amended: when set_nested completes, the value is stored at the path,
\* replacing what was there; every path reachable before that is neither
\* the path nor below it is reachable afterwards, with no sequence there
\* shorter than before; and what lay beside the path is unchanged.
C10_NeverShrinksOutsideTarget ==
    SetNestedCompleted =>
        /\ get_nested(ret, arg.path) = arg.value
        /\ \A q \in PathsIn(arg.d) :
              /\ ~IsPrefix(arg.path, q) => Kept(arg.d, ret, q)
              /\ ~IsPrefix(arg.path, q) /\ ~IsPrefix(q, arg.path) =>
                    get_nested(ret, q) = get_nested(arg.d, q)

\* a call that replaced a container, what was below it being gone
C10_Witness ==
    /\ SetNestedCompleted
    /\ \E q \in PathsIn(arg.d) : IsPrefix(arg.path, q) /\ ~Reachable(ret, q)

-----------------------------------------------------------------------------
(* The run on the two documents {"a":1,"b":2} and {"a":1,"c":3}. *)

Doc_a1_b2 == D((StrKey("a") :> I(1)) @@ (StrKey("b") :> I(2)))
Doc_a1_c3 == D((StrKey("a") :> I(1)) @@ (StrKey("c") :> I(3)))

ExampleReturned == pc = "returned" /\ files = <<Doc_a1_b2, Doc_a1_c3>>

\* C4 as claimed: the base is {"a":1}, the overlay of the first document is
\* empty or absent and the overlay of the second is {"c":3}.
C4_FirstOverlayEmpty ==
    ExampleReturned =>
        /\ base = D(StrKey("a") :> I(1))
        /\ overlays[1] \in {EmptyDict, None}
        /\ overlays[2] = D(StrKey("c") :> I(3))

\* C4 amended: the base is {"a":1}, the overlay of the first document is
\* {"b":2} and the overlay of the second is {"c":3}.
C4_KeyMustBeUniversal ==
    ExampleReturned =>
        /\ base = D(StrKey("a") :> I(1))
        /\ overlays = <<D(StrKey("b") :> I(2)), D(StrKey("c") :> I(3))>>

\* the run on the two documents returned an overlay for each
C4_Witness == ExampleReturned /\ Len(overlays) = 2

-----------------------------------------------------------------------------
(* The run of generate_base_and_overlays. *)

Loaded == \A i \in DOMAIN files : ~IsErr(files[i]) /\ files[i] # None

Intersected == pc \in {"overlays", "raised"} \/ (pc \in {"returned", "done"} /\ overlays # <<>>)

RECURSIVE SubsetOf(_, _)
\* every path of b is a path of d, with b's scalar there, or a container
\* of b's kind that again holds b's
SubsetOf(b, d) ==
    IF IsDict(b) THEN
        /\ IsDict(d)
        /\ \A k \in KeysOf(b) : k \in KeysOf(d) /\ SubsetOf(b.v[k], d.v[k])
    ELSE IF IsList(b) THEN
        /\ IsList(d)
        /\ Len(b.v) <= Len(d.v)
        /\ \A i \in DOMAIN b.v : SubsetOf(b.v[i], d.v[i])
    ELSE b = d

\* C2: every path of the base exists in every document, with the base's
\* scalar or a container holding the base's substructure. (A base of None
\* is absent and has no path.)
C2_BaseIsSubset ==
    Intersected /\ base # None => \A i \in DOMAIN data_list : SubsetOf(base, data_list[i])

\* C7: an intersection that keeps nothing is absent (None), not an empty
\* container, as for {"x": {"y": 1}} and {"x": {"z": 2}}.
C7_EmptyCollapsesToAbsent == Intersected => base \notin {EmptyDict, EmptyList}

\* C8: the run returns (None, []) exactly when some file failed to load; an
\* empty document is no failure.
C8_NoResultIffLoadFailure ==
    pc = "returned" =>
        ((base = None /\ overlays = <<>>) <=> \E i \in DOMAIN files : IsErr(files[i]))

AllEqual == \A i \in DOMAIN files : files[i] = files[1]

\* C3: when all documents are equal to one document d, the base is the
\* pruned d, and create_overlay completes with an empty overlay for each.
C3_IdenticalInputs ==
    Loaded /\ AllEqual =>
        /\ Intersected => base = remove_empty_structures(files[1])
        /\ pc # "raised"
        /\ \A i \in DOMAIN overlays : overlays[i] \in {EmptyDict, None}

RECURSIVE merge(_, _)
\* the additive merge of an overlay onto a base: mappings merge key by
\* key, sequences index by index (an absent overlay element keeps the
\* base's), anything else is overridden; an absent or empty overlay
\* changes nothing
merge(b, o) ==
    IF o = None \/ o = EmptyDict \/ o = EmptyList THEN b
    ELSE IF IsDict(b) /\ IsDict(o) THEN
        DictOf(KeysOf(b) \cup KeysOf(o),
               LAMBDA k : IF k \notin KeysOf(o) THEN b.v[k]
                          ELSE IF k \notin KeysOf(b) THEN o.v[k]
                          ELSE merge(b.v[k], o.v[k]))
    ELSE IF IsList(b) /\ IsList(o) THEN
        L([i \in 1..(IF Len(b.v) > Len(o.v) THEN Len(b.v) ELSE Len(o.v)) |->
              IF i > Len(o.v) THEN b.v[i]
              ELSE IF i > Len(b.v) THEN o.v[i]
              ELSE merge(b.v[i], o.v[i])])
    ELSE o

\* C1: for every document, merging its overlay onto the base gives back
\* the document at every key and element the document has.
C1_RoundTrip ==
    Loaded =>
        /\ pc # "raised"
        /\ \A i \in DOMAIN overlays : SubsetOf(data_list[i], merge(base, overlays[i]))

-----------------------------------------------------------------------------
(* create_overlay *)

\* C5: the overlay holds no path that base has and the document lacks.
C5_NoSubtraction ==
    pc = "called" /\ ~IsErr(ret) =>
        \A q \in PathsIn(ret) : ~(Reachable(arg.base, q) /\ ~Reachable(arg.full, q))

LookupErrors == {Err("KeyError"), Err("IndexError")}

\* C9: for every reported element addition, whether or not its parent path
\* is in the overlay yet, the parent is found or created as a sequence and
\* the element stored at its index; no lookup fails.
C9_ElementAdditionStored ==
    pc = "called" /\ diff.iterable_item_added # <<>> =>
        /\ ret \notin LookupErrors
        /\ LET overlay == build_overlay([diff EXCEPT !.type_changes = <<>>], arg.full)
           IN \A i \in DOMAIN diff.iterable_item_added :
                 get_nested(overlay, parse_path(diff.iterable_item_added[i].path))
                     = diff.iterable_item_added[i].new_value

====
